---- MODULE Spec2Model ----
(***************************************************************************)
(* GitHub Trending Scraper (src/main.js): one run of `node main.js <lang>`. *)
(*                                                                         *)
(* Texts the program edits character by character (the title, description *)
(* and star texts, the language argument) are sequences of one-character   *)
(* strings; texts it only concatenates (hrefs, urls, error messages) are   *)
(* strings.  Console messages are records naming the message printed and   *)
(* the values interpolated into it.                                        *)
(***************************************************************************)
EXTENDS Integers, Sequences, FiniteSets, TLC

VARIABLES pc, argv, language, requests, data, error, rows, i, repos, result,
          j, stdout, stderr, exitCode

vars == <<pc, argv, language, requests, data, error, rows, i, repos, result,
          j, stdout, stderr, exitCode>>

(* Bounds of the model. *)
MaxRows == 3
MaxLen == 3

----------------------------------------------------------------------------
(* JavaScript values the program tests for truthiness or interpolates. *)

Undefined == [type |-> "undefined", val |-> <<>>]
Null == [type |-> "null", val |-> <<>>]
Str(s) == [type |-> "string", val |-> s]
Arr(a) == [type |-> "array", val |-> a]

(* !v is FALSE exactly for truthy v: undefined, null and the empty string  *)
(* are falsy, every array (the empty one too) is truthy.                   *)
Truthy(v) ==
    CASE v.type = "undefined" -> FALSE
      [] v.type = "null" -> FALSE
      [] v.type = "string" -> v.val /= <<>>
      [] v.type = "array" -> TRUE

(* `${v}` for an attribute value: undefined prints as the word undefined.  *)
Interpolate(v) == IF v.type = "undefined" THEN "undefined" ELSE v.val

RECURSIVE Join(_)
Join(s) == IF s = <<>> THEN "" ELSE s[1] \o Join(Tail(s))

----------------------------------------------------------------------------
(* String functions. *)

WhiteSpace == {" ", "\t", "\n", "\r"}

(* text.replace(/\s/g, '') *)
RemoveAllWhitespace(s) == SelectSeq(s, LAMBDA c : c \notin WhiteSpace)

(* Trim, were it to strip inner whitespace as well. *)
TrimEverywhere(s) == SelectSeq(s, LAMBDA c : c \notin WhiteSpace)

RECURSIVE TrimStart(_)
TrimStart(s) ==
    IF s /= <<>> /\ s[1] \in WhiteSpace THEN TrimStart(Tail(s)) ELSE s

RECURSIVE TrimEnd(_)
TrimEnd(s) ==
    IF s /= <<>> /\ s[Len(s)] \in WhiteSpace
    THEN TrimEnd(SubSeq(s, 1, Len(s) - 1))
    ELSE s

(* text.trim() *)
Trim(s) == TrimEnd(TrimStart(s))

UpperCase == <<"A", "B", "C", "D", "E", "F", "G", "H", "I", "J", "K", "L", "M",
               "N", "O", "P", "Q", "R", "S", "T", "U", "V", "W", "X", "Y", "Z">>
LowerCase == <<"a", "b", "c", "d", "e", "f", "g", "h", "i", "j", "k", "l", "m",
               "n", "o", "p", "q", "r", "s", "t", "u", "v", "w", "x", "y", "z">>

LowerChar(c) ==
    IF \E k \in DOMAIN UpperCase : UpperCase[k] = c
    THEN LowerCase[CHOOSE k \in DOMAIN UpperCase : UpperCase[k] = c]
    ELSE c

(* language.toLowerCase() *)
ToLowerCase(s) == [k \in DOMAIN s |-> LowerChar(s[k])]

----------------------------------------------------------------------------
(* Cheerio selections: a selection is the sequence of matched elements.    *)

Link(text, hasHref, href) == [text |-> text, hasHref |-> hasHref, href |-> href]
El(text) == Link(text, FALSE, "")

(* selection.text(): the texts of all matched elements, concatenated.      *)
RECURSIVE Text(_)
Text(sel) == IF sel = <<>> THEN <<>> ELSE sel[1].text \o Text(Tail(sel))

(* selection.attr('href'): the first matched element's attribute, or       *)
(* undefined when nothing matched or the element has no such attribute.    *)
AttrHref(sel) ==
    IF sel /= <<>> /\ sel[1].hasHref THEN Str(sel[1].href) ELSE Undefined

Origin == "https://github.com"

(* The body of the .each callback up to the test of repoName: the record   *)
(* built from one article.Box-row.  row.title is find('h2 > a'), row.p is  *)
(* find('p.col-9'), row.star is find('a[href$="/stargazers"]').            *)
ExtractRow(row) ==
    [name |-> RemoveAllWhitespace(Text(row.title)),
     url |-> Origin \o Interpolate(AttrHref(row.title)),
     description |-> Trim(Text(row.p)),
     stars |-> Trim(Text(row.star))]

----------------------------------------------------------------------------
(* Console messages. *)

Line(kind, n, text, s) == [kind |-> kind, n |-> n, text |-> text, s |-> s]

UsageError == Line("Erro: Por favor, especifique uma linguagem.", 0, <<>>, "")
UsageHint == Line("Uso: node main.js <linguagem>", 0, <<>>, "")
Searching(lang) == Line("Buscando repositorios em alta para", 0, lang, "")
LanguageNotFound(lang) ==
    Line("Erro: A linguagem nao foi encontrada no GitHub Trending.", 0, lang, "")
FetchError(msg) == Line("Erro ao buscar a pagina:", 0, <<>>, msg)
NoneFound == Line("Nenhum repositorio encontrado.", 0, <<>>, "")
Header(n) == Line("--- Top n Repositorios em Alta ---", n, <<>>, "")
SemDescricao == <<"Sem descricao.">>

(* The four console.log calls of one forEach iteration of displayRepos.    *)
RepoLines(repo, index) ==
    << Line("name", index + 1, repo.name, ""),
       Line("stars", 0, repo.stars, ""),
       Line("description", 0,
            IF repo.description /= <<>> THEN repo.description ELSE SemDescricao, ""),
       Line("url", 0, <<>>, repo.url) >>

ListKinds == {"--- Top n Repositorios em Alta ---", "name", "stars", "description", "url"}

----------------------------------------------------------------------------
(* Inputs: the command line and what the network answers.                  *)

Args == {Undefined, Str(<<>>), Str(<<"G", "o">>), Str(<<"c">>)}

TrendingUrl(lang) == "https://github.com/trending/" \o Join(lang)

NoError == [thrown |-> FALSE, hasResponse |-> FALSE, status |-> 0, message |-> ""]
HttpError(status, msg) ==
    [thrown |-> TRUE, hasResponse |-> TRUE, status |-> status, message |-> msg]
PlainError(msg) ==
    [thrown |-> TRUE, hasResponse |-> FALSE, status |-> 0, message |-> msg]

(* What axios.get rejects with: a non-2xx status, or no response at all.   *)
FetchErrors ==
    { HttpError(404, "Request failed with status code 404"),
      HttpError(500, "Request failed with status code 500"),
      PlainError("getaddrinfo ENOTFOUND github.com") }

LoadError == PlainError("cheerio.load() expects a string")

SampleRows ==
    { \* a complete row, with whitespace around and inside every text
      [title |-> <<Link(<<"\n", " ", "a", " ", "/", "\n", "b", " ">>, TRUE, "/a/b")>>,
       p |-> <<El(<<" ", "x", " ", "y", "\n">>)>>,
       star |-> <<El(<<"\n", "1", ",", "2", " ">>)>>],
      \* a title only: no description paragraph, no star link
      [title |-> <<Link(<<"c", "/", "d">>, TRUE, "/c/d")>>, p |-> <<>>, star |-> <<>>],
      \* no title link
      [title |-> <<>>, p |-> <<El(<<"x">>)>>, star |-> <<El(<<"7">>)>>],
      \* a title link whose text is whitespace only
      [title |-> <<Link(<<" ", "\n">>, TRUE, "/e/f")>>, p |-> <<El(<<"x">>)>>, star |-> <<>>],
      \* a title link without an href attribute
      [title |-> <<Link(<<"g", "/", "h">>, FALSE, "")>>, p |-> <<>>, star |-> <<El(<<"9">>)>>],
      \* a title link whose href is empty
      [title |-> <<Link(<<"i">>, TRUE, "")>>, p |-> <<>>, star |-> <<>>] }

Markups == UNION {[1..n -> SampleRows] : n \in 0..MaxRows}

NoData == [kind |-> "none", rows |-> <<>>]
Html(m) == [kind |-> "html", rows |-> m]
NotHtml == [kind |-> "other", rows |-> <<>>]

----------------------------------------------------------------------------
(* The run. *)

Init ==
    /\ pc = "main"
    /\ argv \in Args
    /\ language = Undefined
    /\ requests = <<>>
    /\ data = NoData
    /\ error = NoError
    /\ rows = <<>>
    /\ i = 1
    /\ repos = <<>>
    /\ result = Undefined
    /\ j = 1
    /\ stdout = <<>>
    /\ stderr = <<>>
    /\ exitCode = -1

(* MissingArgument, were process.exit(1) left out: the run goes on.       *)
MissingArgumentNoExit ==
    /\ pc = "main"
    /\ ~Truthy(argv)
    /\ stderr' = Append(stderr, UsageError)
    /\ stdout' = Append(stdout, UsageHint)
    /\ language' = Str(<<>>)
    /\ requests' = Append(requests, TrendingUrl(<<>>))
    /\ pc' = "await"
    /\ UNCHANGED <<argv, data, error, rows, i, repos, result, j, exitCode>>

(* main, no language: usage on both streams, process.exit(1).              *)
MissingArgument ==
    /\ pc = "main"
    /\ ~Truthy(argv)
    /\ stderr' = Append(stderr, UsageError)
    /\ stdout' = Append(stdout, UsageHint)
    /\ exitCode' = 1
    /\ pc' = "exited"
    /\ UNCHANGED <<argv, language, requests, data, error, rows, i, repos, result, j>>

(* main calls fetchTrendingRepos(language.toLowerCase()), which logs and   *)
(* issues the GET.                                                         *)
StartFetch ==
    /\ pc = "main"
    /\ Truthy(argv)
    /\ language' = Str(ToLowerCase(argv.val))
    /\ stdout' = Append(stdout, Searching(ToLowerCase(argv.val)))
    /\ requests' = Append(requests, TrendingUrl(ToLowerCase(argv.val)))
    /\ pc' = "await"
    /\ UNCHANGED <<argv, data, error, rows, i, repos, result, j, stderr, exitCode>>

(* The awaited request resolves with a body.                               *)
RespondOk ==
    /\ pc = "await"
    /\ \E body \in {Html(m) : m \in Markups} \cup {NotHtml} :
           data' = body
    /\ pc' = "load"
    /\ UNCHANGED <<argv, language, requests, error, rows, i, repos, result, j,
                   stdout, stderr, exitCode>>

(* The awaited request rejects.                                            *)
RespondError ==
    /\ pc = "await"
    /\ \E e \in FetchErrors : error' = e
    /\ pc' = "catch"
    /\ UNCHANGED <<argv, language, requests, data, rows, i, repos, result, j,
                   stdout, stderr, exitCode>>

(* cheerio.load(data), repos = [], $('article.Box-row')                    *)
Load ==
    /\ pc = "load"
    /\ data.kind = "html"
    /\ rows' = data.rows
    /\ repos' = <<>>
    /\ i' = 1
    /\ pc' = "each"
    /\ UNCHANGED <<argv, language, requests, data, error, result, j,
                   stdout, stderr, exitCode>>

(* LoadThrows, were cheerio.load called outside the try block.            *)
LoadThrowsUncaught ==
    /\ pc = "load"
    /\ data.kind /= "html"
    /\ error' = LoadError
    /\ exitCode' = 1
    /\ pc' = "crashed"
    /\ UNCHANGED <<argv, language, requests, data, rows, i, repos, result, j,
                   stdout, stderr>>

(* An exception inside the try block after the request.                    *)
LoadThrows ==
    /\ pc = "load"
    /\ data.kind /= "html"
    /\ error' = LoadError
    /\ pc' = "catch"
    /\ UNCHANGED <<argv, language, requests, data, rows, i, repos, result, j,
                   stdout, stderr, exitCode>>

(* EachRow, were the record put in front (unshift for push).              *)
EachRowUnshift ==
    /\ pc = "each"
    /\ i <= Len(rows)
    /\ repos' = IF ExtractRow(rows[i]).name /= <<>>
                THEN <<ExtractRow(rows[i])>> \o repos
                ELSE repos
    /\ i' = i + 1
    /\ UNCHANGED <<pc, argv, language, requests, data, error, rows, result, j,
                   stdout, stderr, exitCode>>

(* EachRow, were the test of repoName left out.                            *)
EachRowNoTest ==
    /\ pc = "each"
    /\ i <= Len(rows)
    /\ repos' = Append(repos, ExtractRow(rows[i]))
    /\ i' = i + 1
    /\ UNCHANGED <<pc, argv, language, requests, data, error, rows, result, j,
                   stdout, stderr, exitCode>>

(* One call of the .each callback.                                         *)
EachRow ==
    /\ pc = "each"
    /\ i <= Len(rows)
    /\ repos' = IF ExtractRow(rows[i]).name /= <<>>
                THEN Append(repos, ExtractRow(rows[i]))
                ELSE repos
    /\ i' = i + 1
    /\ UNCHANGED <<pc, argv, language, requests, data, error, rows, result, j,
                   stdout, stderr, exitCode>>

(* return repos *)
ReturnRepos ==
    /\ pc = "each"
    /\ i > Len(rows)
    /\ result' = Arr(repos)
    /\ pc' = "returned"
    /\ UNCHANGED <<argv, language, requests, data, error, rows, i, repos, j,
                   stdout, stderr, exitCode>>

(* Catch, were the status read from the error and not from its response:  *)
(* error.status is undefined, the test never succeeds.                     *)
CatchStatusOfError ==
    /\ pc = "catch"
    /\ stderr' = Append(stderr, FetchError(error.message))
    /\ result' = Null
    /\ pc' = "returned"
    /\ UNCHANGED <<argv, language, requests, data, error, rows, i, repos, j,
                   stdout, exitCode>>

(* Catch, were a failed request issued once more.                          *)
CatchRetry ==
    /\ pc = "catch"
    /\ IF Len(requests) < 2
       THEN /\ requests' = Append(requests, TrendingUrl(language.val))
            /\ pc' = "await"
            /\ UNCHANGED <<stderr, result>>
       ELSE /\ stderr' = Append(stderr, FetchError(error.message))
            /\ result' = Null
            /\ pc' = "returned"
            /\ UNCHANGED requests
    /\ UNCHANGED <<argv, language, data, error, rows, i, repos, j, stdout, exitCode>>

(* catch (error): one of the two messages, return null                     *)
Catch ==
    /\ pc = "catch"
    /\ stderr' = IF error.hasResponse /\ error.status = 404
                 THEN Append(stderr, LanguageNotFound(language.val))
                 ELSE Append(stderr, FetchError(error.message))
    /\ result' = Null
    /\ pc' = "returned"
    /\ UNCHANGED <<argv, language, requests, data, error, rows, i, repos, j,
                   stdout, exitCode>>

(* SkipDisplay, were displayRepos called without the test of repos.       *)
SkipDisplayShows ==
    /\ pc = "returned"
    /\ ~Truthy(result)
    /\ stdout' = Append(stdout, NoneFound)
    /\ exitCode' = 0
    /\ pc' = "done"
    /\ UNCHANGED <<argv, language, requests, data, error, rows, i, repos, result, j,
                   stderr>>

(* main: if (repos) is false, nothing more is done.                        *)
SkipDisplay ==
    /\ pc = "returned"
    /\ ~Truthy(result)
    /\ exitCode' = 0
    /\ pc' = "done"
    /\ UNCHANGED <<argv, language, requests, data, error, rows, i, repos, result, j,
                   stdout, stderr>>

(* DisplayEmpty, were the test of the length left out: the header of an  *)
(* empty list is printed.                                                  *)
DisplayEmptyHeader ==
    /\ pc = "returned"
    /\ Truthy(result)
    /\ Len(result.val) = 0
    /\ stdout' = Append(stdout, Header(0))
    /\ exitCode' = 0
    /\ pc' = "done"
    /\ UNCHANGED <<argv, language, requests, data, error, rows, i, repos, result, j,
                   stderr>>

(* displayRepos: !repos || repos.length === 0                              *)
DisplayEmpty ==
    /\ pc = "returned"
    /\ Truthy(result)
    /\ (~Truthy(result) \/ Len(result.val) = 0)
    /\ stdout' = Append(stdout, NoneFound)
    /\ exitCode' = 0
    /\ pc' = "done"
    /\ UNCHANGED <<argv, language, requests, data, error, rows, i, repos, result, j,
                   stderr>>

(* displayRepos: the header line                                           *)
DisplayHeader ==
    /\ pc = "returned"
    /\ Truthy(result)
    /\ ~(~Truthy(result) \/ Len(result.val) = 0)
    /\ stdout' = Append(stdout, Header(Len(result.val)))
    /\ j' = 1
    /\ pc' = "display"
    /\ UNCHANGED <<argv, language, requests, data, error, rows, i, repos, result,
                   stderr, exitCode>>

(* displayRepos: one iteration of repos.forEach                            *)
DisplayRepo ==
    /\ pc = "display"
    /\ j <= Len(result.val)
    /\ stdout' = stdout \o RepoLines(result.val[j], j - 1)
    /\ j' = j + 1
    /\ UNCHANGED <<pc, argv, language, requests, data, error, rows, i, repos, result,
                   stderr, exitCode>>

(* displayRepos and main return; the process ends.                         *)
Finish ==
    /\ pc = "display"
    /\ j > Len(result.val)
    /\ exitCode' = 0
    /\ pc' = "done"
    /\ UNCHANGED <<argv, language, requests, data, error, rows, i, repos, result, j,
                   stdout, stderr>>

Next ==
    \/ MissingArgument
    \/ StartFetch
    \/ RespondOk
    \/ RespondError
    \/ Load
    \/ LoadThrows
    \/ EachRow
    \/ ReturnRepos
    \/ Catch
    \/ SkipDisplay
    \/ DisplayEmpty
    \/ DisplayHeader
    \/ DisplayRepo
    \/ Finish

Spec == Init /\ [][Next]_vars

----------------------------------------------------------------------------
(* The extraction of one row, over every row whose texts are at most       *)
(* MaxLen characters: the run from the state after cheerio.load of a page  *)
(* with a single row.                                                      *)

RowAlphabet == {" ", "a"}
Texts == UNION {[1..n -> RowAlphabet] : n \in 0..MaxLen}

AnyRows ==
    [title : {<<>>} \cup {<<Link(t, h, IF h THEN "/a" ELSE "")>> : t \in Texts, h \in BOOLEAN},
     p : {<<>>} \cup {<<El(t)>> : t \in Texts},
     star : {<<>>} \cup {<<El(t)>> : t \in Texts}]

InitRow ==
    /\ pc = "each"
    /\ argv = Str(<<"c">>)
    /\ language = Str(<<"c">>)
    /\ requests = <<TrendingUrl(<<"c">>)>>
    /\ \E row \in AnyRows :
           /\ data = Html(<<row>>)
           /\ rows = <<row>>
    /\ error = NoError
    /\ i = 1
    /\ repos = <<>>
    /\ result = Undefined
    /\ j = 1
    /\ stdout = <<Searching(<<"c">>)>>
    /\ stderr = <<>>
    /\ exitCode = -1

NextRow ==
    \/ EachRow
    \/ ReturnRepos
    \/ DisplayEmpty
    \/ DisplayHeader
    \/ DisplayRepo
    \/ Finish

SpecRow == InitRow /\ [][NextRow]_vars

----------------------------------------------------------------------------
(* What the claims speak of. *)

NonWsPositions(t) == {q \in DOMAIN t : t[q] \notin WhiteSpace}

(* out is t without its whitespace characters, the others in order.        *)
IsWithoutWhitespace(out, t) ==
    /\ Len(out) = Cardinality(NonWsPositions(t))
    /\ \A q \in NonWsPositions(t) :
           out[Cardinality({r \in NonWsPositions(t) : r <= q})] = t[q]

(* out is t from its first to its last character that is no whitespace.    *)
IsTrimmed(out, t) ==
    IF NonWsPositions(t) = {}
    THEN out = <<>>
    ELSE out = SubSeq(t,
                      CHOOSE q \in NonWsPositions(t) : \A r \in NonWsPositions(t) : q <= r,
                      CHOOSE q \in NonWsPositions(t) : \A r \in NonWsPositions(t) : r <= q)

(* The title link of a row is absent, or its text holds whitespace only.   *)
Dropped(row) == row.title = <<>> \/ NonWsPositions(Text(row.title)) = {}

KeptRows == SelectSeq(rows, LAMBDA r : ~Dropped(r))

Returned == result.type = "array"

Printed(msg) == \E k \in DOMAIN stdout : stdout[k] = msg

ListPrinted == \E k \in DOMAIN stdout : stdout[k].kind \in ListKinds

RECURSIVE AllRepoLines(_, _)
AllRepoLines(rs, index) ==
    IF rs = <<>> THEN <<>> ELSE RepoLines(rs[1], index) \o AllRepoLines(Tail(rs), index + 1)

----------------------------------------------------------------------------
\* C1 (as amended): after a successful fetch of a page whose N rows each have
\* a title link whose text is non-empty after whitespace removal,
\* fetchTrendingRepos returns exactly N records and the i-th record is the one
\* built from the i-th row (document order, no deduplication).
C1_RecordsInDocumentOrder ==
    (Returned /\ \A k \in DOMAIN rows : ~Dropped(rows[k]))
        => /\ Len(result.val) = Len(rows)
           /\ \A k \in DOMAIN rows : result.val[k] = ExtractRow(rows[k])

C1_Witness ==
    /\ Returned
    /\ Len(rows) = 2
    /\ \A k \in DOMAIN rows : ~Dropped(rows[k])
    /\ rows[1] /= rows[2]
    /\ pc = "done"

\* C1 as stated: N rows that each have a title link with non-empty text give
\* exactly N records, the i-th built from the i-th row.
C1_AsStated ==
    (Returned /\ \A k \in DOMAIN rows :
                     rows[k].title /= <<>> /\ Text(rows[k].title) /= <<>>)
        => /\ Len(result.val) = Len(rows)
           /\ \A k \in DOMAIN rows : result.val[k] = ExtractRow(rows[k])

\* C2: a row whose title link is absent or whose name is empty after
\* whitespace removal contributes no record and raises no error: the records
\* number the rows less such rows (during the loop and at the return), and
\* every record has a non-empty name.
C2_DroppedRowsContributeNothing ==
    /\ pc = "each" =>
           /\ Len(repos) = (i - 1) - Cardinality({k \in 1..(i - 1) : Dropped(rows[k])})
           /\ ~error.thrown
    /\ \A k \in DOMAIN repos : repos[k].name /= <<>>
    /\ Returned =>
           /\ Len(result.val)
                  = Len(rows) - Cardinality({k \in DOMAIN rows : Dropped(rows[k])})
           /\ \A k \in DOMAIN result.val : result.val[k].name /= <<>>
           /\ ~error.thrown
           /\ stderr = <<>>

C2_Witness ==
    /\ Returned
    /\ Len(rows) = 2
    /\ rows[1].title = <<>>
    /\ rows[2].title /= <<>> /\ Dropped(rows[2])
    /\ result.val = <<>>

\* C3 as stated: the url of every emitted record is "https://github.com"
\* followed by the href of the row's title link, and is the bare origin when
\* that href is empty or missing.
C3_UrlIsOriginPlusHref ==
    Returned =>
        \A k \in DOMAIN result.val :
            k \in DOMAIN KeptRows =>
                result.val[k].url
                    = "https://github.com"
                        \o (IF KeptRows[k].title[1].hasHref
                            THEN KeptRows[k].title[1].href
                            ELSE "")

\* C4 (as amended): when the fetch failed and the error was caught,
\* fetchTrendingRepos returns null, main skips the presentation and the run
\* prints the error message only; the "nothing found" message is printed
\* exactly when a successful fetch gave zero records.
C4_NothingFoundOnlyAfterSuccess ==
    pc = "done" =>
        /\ Printed(NoneFound) <=> (Returned /\ result.val = <<>>)
        /\ error.thrown =>
               /\ result = Null
               /\ stdout = <<Searching(language.val)>>
               /\ Len(stderr) = 1

C4_Witness ==
    /\ pc = "done"
    /\ error.thrown
    /\ error.hasResponse
    /\ error.status = 500
    /\ ~Printed(NoneFound)

\* C4 as stated: a run that ends with zero records because the fetch failed
\* and the error was caught reports the "nothing found" message.
C4_AsStated == (pc = "done" /\ error.thrown) => Printed(NoneFound)

\* C5: a 404 response prints the "language not found" message and not the
\* generic one, no list, and the run ends normally; every other failure prints
\* the generic message with the error's text: exactly one error message per
\* failed run.
C5_OneErrorMessage ==
    /\ pc /= "crashed"
    /\ (error.thrown /\ pc \in {"returned", "done"}) =>
           /\ stderr = << IF error.hasResponse /\ error.status = 404
                          THEN LanguageNotFound(ToLowerCase(argv.val))
                          ELSE FetchError(error.message) >>
           /\ ~ListPrinted
    /\ (error.thrown /\ pc = "done") => exitCode = 0

C5_Witness ==
    /\ pc = "done"
    /\ error.hasResponse
    /\ error.status = 404
    /\ argv = Str(<<"G", "o">>)
    /\ stderr = <<LanguageNotFound(<<"g", "o">>)>>

\* C6: without a language argument the run prints the usage error to the
\* error stream and the usage hint to the output stream, exits with status 1,
\* and never issues the request nor prints a listing.
C6_MissingArgument ==
    ~Truthy(argv) =>
        /\ pc \in {"main", "exited"}
        /\ requests = <<>>
        /\ ~ListPrinted
        /\ ~Printed(NoneFound)
        /\ pc = "exited" =>
               /\ stderr = <<UsageError>>
               /\ stdout = <<UsageHint>>
               /\ exitCode = 1

C6_Witness ==
    /\ pc = "exited"
    /\ argv = Undefined
    /\ exitCode = 1

\* C7: a successful fetch of a page with no matching row returns the empty
\* sequence, and the presentation prints the "no repositories found" message
\* and neither a header nor an entry.
C7_EmptyPage ==
    (data.kind = "html" /\ data.rows = <<>>) =>
        /\ repos = <<>>
        /\ ~ListPrinted
        /\ pc \in {"returned", "done"} => result = Arr(<<>>)
        /\ pc = "done" =>
               /\ stdout = <<Searching(language.val), NoneFound>>
               /\ stderr = <<>>

C7_Witness ==
    /\ pc = "done"
    /\ data.kind = "html"
    /\ data.rows = <<>>
    /\ Printed(NoneFound)

\* C8: in a run with a language argument every failure is caught and turned
\* into one message, none escapes, and the finished run shows either the full
\* numbered list of all the records or a single message: never a partial list,
\* never a list and an error message.
C8_FullListOrOneMessage ==
    Truthy(argv) =>
        /\ pc /= "crashed"
        /\ (error.thrown /\ pc \in {"returned", "done"}) =>
               (Len(stderr) = 1 /\ result = Null)
        /\ ListPrinted => stderr = <<>>
        /\ pc = "done" =>
               /\ exitCode = 0
               /\ \/ /\ stderr = <<>>
                     /\ Returned
                     /\ result.val /= <<>>
                     /\ Len(result.val) = Len(KeptRows)
                     /\ stdout = <<Searching(language.val), Header(Len(result.val))>>
                                     \o AllRepoLines(result.val, 0)
                  \/ /\ stderr = <<>>
                     /\ stdout = <<Searching(language.val), NoneFound>>
                  \/ /\ Len(stderr) = 1
                     /\ stdout = <<Searching(language.val)>>

C8_Witness ==
    /\ pc = "done"
    /\ error = LoadError
    /\ stderr = <<FetchError(LoadError.message)>>

\* C9: in a run with a language argument exactly one GET is issued, to the
\* trending URL of the lower-cased language; it is never retried, and
\* extraction and presentation start only after it succeeded.
C9_OneRequest ==
    Truthy(argv) =>
        /\ pc = "main" => requests = <<>>
        /\ pc /= "main" =>
               requests = <<"https://github.com/trending/" \o Join(ToLowerCase(argv.val))>>
        /\ (pc /= "main" /\ argv = Str(<<"G", "o">>)) =>
               requests = <<"https://github.com/trending/go">>
        /\ (pc \in {"each", "display"} \/ Returned \/ ListPrinted \/ Printed(NoneFound)) =>
               (data.kind = "html" /\ ~error.thrown)

C9_Witness ==
    /\ pc = "done"
    /\ argv = Str(<<"G", "o">>)
    /\ error.thrown
    /\ error.hasResponse
    /\ Len(requests) = 1

\* C10: the name of every emitted record is the title link's text without any
\* of its whitespace characters (" foo / bar " gives "foo/bar"), so no name
\* holds a whitespace character; description and stars lose their leading and
\* trailing whitespace only.
C10_NameStrippedOthersTrimmed ==
    /\ RemoveAllWhitespace(<<" ", "f", "o", "o", " ", "/", " ", "b", "a", "r", " ">>)
           = <<"f", "o", "o", "/", "b", "a", "r">>
    /\ Returned =>
           \A k \in DOMAIN result.val :
               k \in DOMAIN KeptRows =>
                   /\ IsWithoutWhitespace(result.val[k].name, Text(KeptRows[k].title))
                   /\ \A q \in DOMAIN result.val[k].name :
                          result.val[k].name[q] \notin WhiteSpace
                   /\ IsTrimmed(result.val[k].description, Text(KeptRows[k].p))
                   /\ IsTrimmed(result.val[k].stars, Text(KeptRows[k].star))

C10_Witness ==
    /\ pc = "done"
    /\ Returned
    /\ Len(result.val) = 1
    /\ Text(rows[1].title) = <<"a", " ", "a">>
    /\ result.val[1].name = <<"a", "a">>
    /\ Text(rows[1].p) = <<" ", "a", " ">>
    /\ result.val[1].description = <<"a">>
    /\ Text(rows[1].star) = <<"a", " ", "a">>
    /\ result.val[1].stars = <<"a", " ", "a">>

====
